---- MODULE Spec2Model ----
(***************************************************************************)
(* A model of the three serverless handlers of the repository:             *)
(*   - api/ip.js                          GET /ip                          *)
(*   - src/unnamed/part_000  ("Variant A") relay with a hashed topic id    *)
(*   - src/unnamed/part_001  ("Variant B") relay with create-or-find topic *)
(*                                                                         *)
(* Strings that the code takes apart (addresses, the IP_TOPIC_MAP value)   *)
(* are sequences of character codes.  JavaScript values that may be a      *)
(* number or one of the non-numbers (null, undefined, NaN, an object) are  *)
(* records [k, n]; a number is an IEEE double, as in JavaScript.           *)
(***************************************************************************)
EXTENDS Integers, Sequences, FiniteSets, TLC

(***************************************************************************)
(* JavaScript values                                                       *)
(***************************************************************************)
\* a number of magnitude below 2^31
Num(n) == [k |-> "num", n |-> n]
\* a whole number of magnitude 2^31 or more: bits is its binary expansion, most
\* significant bit first; past bit 53 all bits are 0 (the 53-bit significand)
Double(neg, bits) == [k |-> "double", n |-> 0, neg |-> neg, bits |-> bits]
Infinity(neg) == [k |-> "infinity", n |-> 0, neg |-> neg]
Null == [k |-> "null", n |-> 0]
Undefined == [k |-> "undefined", n |-> 0]
NaN == [k |-> "nan", n |-> 0]
\* a function or object value, e.g. what a plain object inherits from Object.prototype
ObjectValue == [k |-> "object", n |-> 0]

\* ToBoolean of such a value
Truthy(v) == \/ v.k \in {"object", "double", "infinity"}
             \/ v.k = "num" /\ v.n # 0

(***************************************************************************)
(* Strings as sequences of character codes                                 *)
(***************************************************************************)
\* the code units String.prototype.trim strips and parseInt skips: WhiteSpace and
\* LineTerminator of ECMAScript
IsSpace(c) ==
    c \in {9, 10, 11, 12, 13, 32, 160, 5760, 8232, 8233, 8239, 8287, 12288, 65279}
          \cup (8192..8202)
IsDigit(c) == c \in 48..57
IsHexDigit(c) == c \in (48..57) \cup (65..70) \cup (97..102)

RECURSIVE TrimStart(_)
TrimStart(s) == IF s # <<>> /\ IsSpace(Head(s)) THEN TrimStart(Tail(s)) ELSE s

RECURSIVE TrimEnd(_)
TrimEnd(s) == IF s # <<>> /\ IsSpace(s[Len(s)]) THEN TrimEnd(SubSeq(s, 1, Len(s) - 1)) ELSE s

\* String.prototype.trim
Trim(s) == TrimEnd(TrimStart(s))

\* String.prototype.split(sep) for a one-character separator: the pieces between
\* the separators, of which there is always at least one
RECURSIVE SplitFrom(_, _, _)
SplitFrom(s, sep, cur) ==
    IF s = <<>> THEN <<cur>>
    ELSE IF Head(s) = sep THEN <<cur>> \o SplitFrom(Tail(s), sep, <<>>)
    ELSE SplitFrom(Tail(s), sep, Append(cur, Head(s)))

Split(s, sep) == SplitFrom(s, sep, <<>>)

\* The integer a numeral spells can exceed the model checker's 32-bit integers:
\* it is kept as its binary expansion, most significant bit first (<<>> is 0).
\* Halve(k, st): k times over, or until nothing is left of it, the decimal numeral
\* st.d (a sequence of digit values) is divided by two and its last bit is put in
\* front of st.bits.
RECURSIVE Halve(_, _)
Halve(k, st) ==
    IF k = 0 \/ \A i \in 1..Len(st.d) : st.d[i] = 0 THEN st
    ELSE IF k = 1
    THEN [d |-> <<>> \o [i \in 1..Len(st.d) |->
                            (st.d[i] + (IF i > 1 THEN 10 * (st.d[i - 1] % 2) ELSE 0)) \div 2],
          bits |-> <<st.d[Len(st.d)] % 2>> \o st.bits]
    ELSE Halve(k - (k \div 2), Halve(k \div 2, st))

\* the longest prefix of s made of digits of the radix, as an integer
DigitsValue(s, radix) ==
    LET IsDigitOf(c) == IF radix = 10 THEN IsDigit(c) ELSE IsHexDigit(c)
        n == CHOOSE k \in 0..Len(s) :
                 (\A h \in 1..k : IsDigitOf(s[h])) /\ (k = Len(s) \/ ~IsDigitOf(s[k + 1]))
        HexVal(c) == IF c \in 48..57 THEN c - 48 ELSE IF c \in 65..70 THEN c - 55 ELSE c - 87
        \* a decimal numeral of n digits has at most n * log2(10) bits
        raw == IF radix = 16
               THEN [i \in 1..(4 * n) |->
                        (HexVal(s[((i - 1) \div 4) + 1]) \div (2^(3 - ((i - 1) % 4)))) % 2]
               ELSE Halve((n * 3322) \div 1000 + 1,
                          [d |-> [i \in 1..n |-> s[i] - 48], bits |-> <<>>]).bits
        lead == CHOOSE i \in 1..Len(raw) : raw[i] = 1 /\ \A h \in 1..(i - 1) : raw[h] = 0
    IN IF \A i \in 1..Len(raw) : raw[i] = 0 THEN <<>> ELSE SubSeq(raw, lead, Len(raw))

\* the integer of at most 31 bits
RECURSIVE BitsValue(_, _)
BitsValue(bits, acc) ==
    IF bits = <<>> THEN acc ELSE BitsValue(Tail(bits), 2 * acc + Head(bits))

\* The Number value of an integer: the nearest double, a tie going to the even
\* significand; Infinity from 2^1024 - 2^970 on.
NumberValue(bits) ==
    LET L == Len(bits)
        m == SubSeq(bits, 1, 53)
        Zeros(n) == [i \in 1..n |-> 0]
        roundUp == bits[54] = 1 /\ (m[53] = 1 \/ \E i \in 55..L : bits[i] = 1)
        j == CHOOSE i \in 1..53 : m[i] = 0 /\ \A h \in (i + 1)..53 : m[h] = 1
        rounded == IF L <= 53 THEN bits
                   ELSE IF ~roundUp THEN m \o Zeros(L - 53)
                   ELSE IF \A i \in 1..53 : m[i] = 1 THEN <<1>> \o Zeros(L)
                   ELSE [i \in 1..53 |-> IF i < j THEN m[i] ELSE IF i = j THEN 1 ELSE 0]
                        \o Zeros(L - 53)
    IN IF L <= 31 THEN Num(BitsValue(bits, 0))
       ELSE IF Len(rounded) > 1024 THEN Infinity(FALSE)
       ELSE Double(FALSE, rounded)

HasDigit(s, radix) == /\ s # <<>>
                      /\ IF radix = 10 THEN IsDigit(Head(s)) ELSE IsHexDigit(Head(s))

\* parseInt(string) without a radix argument: leading white space, a sign, an
\* optional 0x/0X prefix, then the longest run of digits; NaN when there is none
ParseIntUnsigned(s) ==
    IF Len(s) >= 2 /\ s[1] = 48 /\ s[2] \in {88, 120}
    THEN LET rest == SubSeq(s, 3, Len(s))
         IN IF HasDigit(rest, 16) THEN NumberValue(DigitsValue(rest, 16)) ELSE NaN
    ELSE IF HasDigit(s, 10) THEN NumberValue(DigitsValue(s, 10)) ELSE NaN

ParseInt(str) ==
    LET s == TrimStart(str)
    IN IF s # <<>> /\ Head(s) = 45
       THEN LET v == ParseIntUnsigned(Tail(s))
            IN IF v.k = "num" THEN Num(0 - v.n)
               ELSE IF v.k \in {"double", "infinity"} THEN [v EXCEPT !.neg = TRUE]
               ELSE NaN
       ELSE IF s # <<>> /\ Head(s) = 43 THEN ParseIntUnsigned(Tail(s))
       ELSE ParseIntUnsigned(s)

\* Number.prototype.toString for a natural number
RECURSIVE ToDecimal(_)
ToDecimal(n) == IF n < 10 THEN <<48 + n>> ELSE Append(ToDecimal(n \div 10), 48 + (n % 10))

\* parseInt(v) for a number v: parseInt of ToString(v).
\*  - Below 10^21 ToString writes the shortest decimal numeral that reads back as
\*    v, without an exponent, so parseInt gives v again.
\*  - From 10^21 on it writes d.ddde+N (or de+N) and parseInt stops after the
\*    first digit d.  With p the power of ten of v's leading decimal digit and
\*    a * p <= v < (a + 1) * p, the shortest numeral is (a + 1) * p when that reads
\*    back as v, i.e. lies at or below the half-way point to the next double (at it
\*    only for an even significand); otherwise the numeral starts with a.
\*  - Infinity is written "Infinity", which has no digit.
ParseIntOfNumber(v) ==
    LET Less(x, y) == \/ Len(x) < Len(y)
                      \/ /\ Len(x) = Len(y)
                         /\ \E i \in 1..Len(x) : x[i] < y[i] /\ \A h \in 1..(i - 1) : x[h] = y[h]
        \* c * 10^z
        Times(c, z) == DigitsValue(ToDecimal(c) \o [i \in 1..z |-> 48], 10)
        L == Len(v.bits)
        \* the number of decimal digits after the leading one: about (L - 1) * log10(2)
        e == CHOOSE d \in (((L - 1) * 30103) \div 100000 - 1)..(((L - 1) * 30103) \div 100000 + 1) :
                 ~Less(v.bits, Times(1, d)) /\ Less(v.bits, Times(10, d))
        a == CHOOSE d \in 1..9 : ~Less(v.bits, Times(d, e)) /\ Less(v.bits, Times(d + 1, e))
        half == [i \in 1..L |-> IF i = 54 THEN 1 ELSE v.bits[i]]
        next == Times(a + 1, e)
        first == IF Less(next, half) \/ (next = half /\ v.bits[53] = 0)
                 THEN (IF a = 9 THEN 1 ELSE a + 1)
                 ELSE a
    IN IF v.k = "num"
       THEN (IF v.n >= 0 THEN ParseInt(ToDecimal(v.n)) ELSE ParseInt(<<45>> \o ToDecimal(0 - v.n)))
       ELSE IF v.k = "infinity" THEN NaN
       ELSE IF Less(v.bits, Times(1, 21)) THEN v
       ELSE Num(IF v.neg THEN 0 - first ELSE first)

(***************************************************************************)
(* Variant A: the topic id of an address (part_000, getTopicIdForIP)       *)
(***************************************************************************)
\* A 32-bit integer is a pair of 16-bit halves [hi, lo] (the model checker's own
\* integers are 32-bit, so -2^31 negated, 2^31, needs the pair).  As a signed
\* value it is negative when the top bit of hi is set.  Wrapping each step to 32
\* bits gives what JavaScript's exact double arithmetic followed by one ToInt32
\* (hash & hash) gives: the intermediate (hash << 5) - hash + char is below 2^53.
Word(hi, lo) == [hi |-> hi % 65536, lo |-> lo % 65536]
WordZero == Word(0, 0)

\* hash << 5
Shl5(w) == Word(w.hi * 32 + ((w.lo * 32) \div 65536), w.lo * 32)

\* a - b, wrapped
SubWord(a, b) ==
    LET lo == a.lo - b.lo
        borrow == IF lo < 0 THEN 1 ELSE 0
    IN Word(a.hi - b.hi - borrow + 65536, lo + 65536)

\* a + c for a character code c (0..65535), wrapped
AddCode(a, c) == Word(a.hi + ((a.lo + c) \div 65536), a.lo + c)

IsNegative(w) == w.hi >= 32768

\* Math.abs(hash): a double, so the magnitude of -2^31 is 2^31 (hi = 32768, lo = 0),
\* which is again written as a pair
MathAbs(w) == IF IsNegative(w) THEN SubWord(WordZero, w) ELSE w

\* hashValue % m for the non-negative number the pair w stands for (m * 256 < 2^31)
ModWord(w, m) == ((((((w.hi * 256) % m) * 256) % m) + w.lo) % m)

\* hashIP: hash = ((hash << 5) - hash) + char; hash = hash & hash
RECURSIVE HashLoop(_, _)
HashLoop(ip, hash) ==
    IF ip = <<>> THEN hash
    ELSE HashLoop(Tail(ip), AddCode(SubWord(Shl5(hash), hash), Head(ip)))

hashIP(ip) == MathAbs(HashLoop(ip, WordZero))

\* the names every plain object inherits from Object.prototype
StrConstructor == <<99, 111, 110, 115, 116, 114, 117, 99, 116, 111, 114>>
StrProto == <<95, 95, 112, 114, 111, 116, 111, 95, 95>>
StrToString == <<116, 111, 83, 116, 114, 105, 110, 103>>
StrValueOf == <<118, 97, 108, 117, 101, 79, 102>>
StrHasOwnProperty == <<104, 97, 115, 79, 119, 110, 80, 114, 111, 112, 101, 114, 116, 121>>
StrIsPrototypeOf == <<105, 115, 80, 114, 111, 116, 111, 116, 121, 112, 101, 79, 102>>
StrPropertyIsEnumerable == <<112, 114, 111, 112, 101, 114, 116, 121, 73, 115, 69, 110, 117, 109, 101, 114, 97, 98, 108, 101>>
StrToLocaleString == <<116, 111, 76, 111, 99, 97, 108, 101, 83, 116, 114, 105, 110, 103>>
ObjectPrototypeKeys ==
    {StrConstructor, StrProto, StrToString, StrValueOf, StrHasOwnProperty, StrIsPrototypeOf,
     StrPropertyIsEnumerable, StrToLocaleString,
     \* __defineGetter__, __defineSetter__, __lookupGetter__, __lookupSetter__
     <<95, 95, 100, 101, 102, 105, 110, 101, 71, 101, 116, 116, 101, 114, 95, 95>>,
     <<95, 95, 100, 101, 102, 105, 110, 101, 83, 101, 116, 116, 101, 114, 95, 95>>,
     <<95, 95, 108, 111, 111, 107, 117, 112, 71, 101, 116, 116, 101, 114, 95, 95>>,
     <<95, 95, 108, 111, 111, 107, 117, 112, 83, 101, 116, 116, 101, 114, 95, 95>>}

\* mappings after IP_TOPIC_MAP.split(',').forEach(...): the own properties of the
\* object, as a sequence of <<key, value>> in assignment order.  An assignment to
\* __proto__ of a number sets no own property.
MappingOf(mapping) ==
    LET parts == Split(mapping, 58)
        ipAddr == Trim(parts[1])
        topicId == IF Len(parts) >= 2 THEN Trim(parts[2]) ELSE <<>>
    IN IF ipAddr # <<>> /\ Len(parts) >= 2 /\ topicId # <<>> /\ ipAddr # StrProto
       THEN <<[key |-> ipAddr, val |-> ParseInt(topicId)]>>
       ELSE <<>>

RECURSIVE MappingsFrom(_)
MappingsFrom(pieces) ==
    IF pieces = <<>> THEN <<>> ELSE MappingOf(Head(pieces)) \o MappingsFrom(Tail(pieces))

ParseMappings(IP_TOPIC_MAP) ==
    IF IP_TOPIC_MAP = <<>> THEN <<>> ELSE MappingsFrom(Split(IP_TOPIC_MAP, 44))

\* mappings[ip]: the last assignment to the key, else what the prototype gives
RECURSIVE LookupOwn(_, _, _)
LookupOwn(mappings, ip, dflt) ==
    IF mappings = <<>> THEN dflt
    ELSE LookupOwn(Tail(mappings), ip, IF Head(mappings).key = ip THEN Head(mappings).val ELSE dflt)

MappingsGet(mappings, ip) ==
    LookupOwn(mappings, ip, IF ip \in ObjectPrototypeKeys THEN ObjectValue ELSE Undefined)

getTopicIdForIP(ip, IP_TOPIC_MAP) ==
    LET mappings == ParseMappings(IP_TOPIC_MAP)
        found == MappingsGet(mappings, ip)
    IN IF Truthy(found) THEN found
       ELSE Num(ModWord(hashIP(ip), 900000) + 100000)

(***************************************************************************)
(* The message formatters.  A message is a sequence of parts in template   *)
(* order: a literal of the template, an interpolated value, the serialized *)
(* payload, the address, a formatted time.  A payload (InboundEvent) is a  *)
(* function from the field names it carries to their string values; the    *)
(* empty string is the falsy value of `x || 'N/A'`.                        *)
(***************************************************************************)
NoObject == [f \in {} |-> ""]

Lit(s) == [k |-> "lit", s |-> s, d |-> NoObject, a |-> <<>>]
Val(s) == [k |-> "value", s |-> s, d |-> NoObject, a |-> <<>>]
\* JSON.stringify(userData, null, 2)
Json(d) == [k |-> "json", s |-> "", d |-> d, a |-> <<>>]
Addr(a) == [k |-> "address", s |-> "", d |-> NoObject, a |-> a]
\* new Date(t).toLocaleString(...); t = "" stands for the time of formatting
Time(t) == [k |-> "time", s |-> t, d |-> NoObject, a |-> <<>>]
\* ID: ${Date.now()}
NowId == [k |-> "now", s |-> "", d |-> NoObject, a |-> <<>>]

Has(d, f) == f \in DOMAIN d
\* d.f || dflt
OrElse(d, f, dflt) == IF Has(d, f) /\ d[f] # "" THEN d[f] ELSE dflt
OrNA(d, f) == OrElse(d, f, "N/A")

RecognizedActions ==
    {"bank_selected", "phone_entered", "verification_code_entered",
     "verification_code_resend", "auth_method_selected", "pin_attempt_failed",
     "pin_max_attempts_reached", "pin_verified", "bank_app_confirmed", "bank_login"}

AuthMethodText(d) ==
    IF Has(d, "auth_method") /\ d["auth_method"] = "card-reader" THEN "Card Reader" ELSE "Bank App"

\* Variant A, part_000 lines 111-257: the switch on userData.action || 'unknown'
FormatBodyA(action, userData, clientIp) ==
    LET bank == <<Lit("Bank:"), Val(OrNA(userData, "bank"))>>
        phone == <<Lit("Telefon:"), Val(OrNA(userData, "phone"))>>
        tail == <<Lit("IP:"), Addr(clientIp), Lit("Tidspunkt:"),
                  Time(OrElse(userData, "timestamp", "")), Lit("ID:"), NowId>>
    IN CASE action = "bank_selected" -> <<Lit("Bank Valgt")>> \o bank \o tail
         [] action = "phone_entered" -> <<Lit("Telefonnummer Oppgitt")>> \o bank \o phone \o tail
         [] action = "verification_code_entered" ->
                <<Lit("Verifiseringskode Oppgitt")>> \o bank \o phone
                \o <<Lit("Kode:"), Val(OrNA(userData, "verification_code"))>> \o tail
         [] action = "verification_code_resend" ->
                <<Lit("Verifiseringskode Sendt Pa Nytt")>> \o bank \o phone \o tail
         [] action = "auth_method_selected" ->
                <<Lit("Autentiseringsmetode Valgt")>> \o bank
                \o <<Lit("Metode:"), Val(AuthMethodText(userData))>> \o tail
         [] action = "pin_attempt_failed" ->
                <<Lit("PIN Forsok Feilet")>> \o bank \o phone
                \o <<Lit("PIN Forsok:"), Val(OrNA(userData, "pin_attempt")),
                     Lit("Forsok #"), Val(OrNA(userData, "attempt_number")),
                     Lit("Gjenstaende:"), Val(OrNA(userData, "remaining_attempts")),
                     Lit("forsok")>> \o tail
         [] action = "pin_max_attempts_reached" ->
                <<Lit("Maks PIN Forsok Nadd")>> \o bank \o phone
                \o <<Lit("Status: Alle forsok brukt opp")>> \o tail
         [] action = "pin_verified" ->
                <<Lit("PIN Bekreftet")>> \o bank \o phone
                \o <<Lit("PIN:"), Val(OrNA(userData, "pin"))>> \o tail
         [] action = "bank_app_confirmed" -> <<Lit("Bank App Bekreftet")>> \o bank \o phone \o tail
         [] action = "bank_login" ->
                <<Lit("Ny TWINT Registrering")>> \o bank \o phone
                \o <<Lit("Brukernavn:"), Val(OrNA(userData, "bank_username")),
                     Lit("Passord:"), Val(OrNA(userData, "bank_password"))>> \o tail
         [] OTHER ->
                <<Lit("Ukjent Handling"), Lit("Action:"), Val(action), Lit("Data:"), Json(userData),
                  Lit("Tidspunkt:"), Time(OrElse(userData, "timestamp", "")), Lit("ID:"), NowId>>

FormatMessageA(userData, clientIp) ==
    FormatBodyA(OrElse(userData, "action", "unknown"), userData, clientIp)

\* Variant B, part_001 lines 196-291: formatTelegramMessage(data, isNewIPAddress),
\* where data is {...userData, ip_adresse}
FormatBodyB(action, data) ==
    LET bank == <<Lit("Bank:"), Val(OrNA(data, "bank"))>>
        phone == <<Lit("Telefon:"), Val(OrNA(data, "phone"))>>
    IN CASE action = "bank_selected" -> <<Lit("Bank Valgt")>> \o bank
         [] action = "phone_entered" -> <<Lit("Telefonnummer Oppgitt")>> \o bank \o phone
         [] action = "verification_code_entered" ->
                <<Lit("Verifiseringskode Oppgitt")>> \o bank \o phone
                \o <<Lit("Kode:"), Val(OrNA(data, "verification_code"))>>
         [] action = "verification_code_resend" ->
                <<Lit("Verifiseringskode Sendt Pa Nytt")>> \o bank \o phone
         [] action = "auth_method_selected" ->
                <<Lit("Autentiseringsmetode Valgt")>> \o bank
                \o <<Lit("Metode:"), Val(AuthMethodText(data))>>
         [] action = "pin_attempt_failed" ->
                <<Lit("PIN Forsok Feilet")>> \o bank \o phone
                \o <<Lit("PIN Forsok:"), Val(OrNA(data, "pin_attempt"))>>
                \o (IF OrElse(data, "attempt_number", "") # ""
                    THEN <<Lit("Forsok #"), Val(data["attempt_number"])>> ELSE <<>>)
                \o (IF Has(data, "remaining_attempts")
                    THEN <<Lit("Gjenstaende:"), Val(data["remaining_attempts"]), Lit("forsok")>>
                    ELSE <<>>)
         [] action = "pin_max_attempts_reached" ->
                <<Lit("Maks PIN Forsok Nadd")>> \o bank \o phone
                \o <<Lit("Status: Alle forsok brukt opp")>>
         [] action = "pin_verified" ->
                <<Lit("PIN Bekreftet")>> \o bank \o phone
                \o <<Lit("PIN:"), Val(OrNA(data, "pin"))>>
         [] action = "bank_app_confirmed" -> <<Lit("Bank App Bekreftet")>> \o bank \o phone
         [] action = "bank_login" ->
                <<Lit("Ny TWINT Registrering")>> \o bank \o phone
                \o <<Lit("Brukernavn:"), Val(OrNA(data, "bank_username")),
                     Lit("Passord:"), Val(OrNA(data, "bank_password"))>>
         [] OTHER -> <<Lit("Ukjent Handling"), Lit("Action:"), Val(OrNA(data, "action"))>>

formatTelegramMessage(userData, ip_adresse, isNewIPAddress) ==
    (IF isNewIPAddress
     THEN <<Lit("Ny bruker opprettet"), Lit("IP-adresse:"), Addr(ip_adresse)>> ELSE <<>>)
    \o FormatBodyB(IF Has(userData, "action") THEN userData["action"] ELSE "", userData)
    \o <<Lit("IP:"), (IF ip_adresse = <<>> THEN Val("N/A") ELSE Addr(ip_adresse)), Lit("Tid:"), Time(OrElse(userData, "timestamp", ""))>>

(***************************************************************************)
(* Requests, responses and the remote API                                  *)
(***************************************************************************)
StrUnknown == <<117, 110, 107, 110, 111, 119, 110>>
StrUkjentIP == <<85, 107, 106, 101, 110, 116, 32, 73, 80>>

\* A header that is absent and one that is the empty string take the same branch
\* of every `||` and `?:` of the handlers; both are written <<>>.
\* part_000 lines 37-40 and api/ip.js lines 21-24
ClientIpA(headers) ==
    LET first == Trim(Split(headers.xff, 44)[1])
    IN IF first # <<>> THEN first
       ELSE IF headers.realIp # <<>> THEN headers.realIp
       ELSE IF headers.remote # <<>> THEN headers.remote
       ELSE StrUnknown

\* part_001 lines 337-340
ClientIpB(headers) ==
    IF headers.xff # <<>> THEN Trim(Split(headers.xff, 44)[1])
    ELSE IF headers.realIp # <<>> THEN headers.realIp
    ELSE IF headers.remote # <<>> THEN headers.remote
    ELSE StrUkjentIP

\* a value of a response body's field: text parts, or an address
Text(parts) == [text |-> parts, addr |-> <<>>]
AddrField(a) == [text |-> <<>>, addr |-> a]
NoBody == [f \in {} |-> Text(<<>>)]

\* the Access-Control-* and Content-Type headers every handler sets first
CorsHeaders(methods) ==
    [origin |-> "*", methods |-> methods, headers |-> "Content-Type",
     contentType |-> "application/json"]

\* res.status(n).json(body) and res.status(n).end()
JsonResponse(status, body) == [status |-> status, json |-> TRUE, body |-> body]
EmptyResponse(status) == [status |-> status, json |-> FALSE, body |-> NoBody]

\* which branch the first lines of a handler take for a verb
VerbGateNo405(allowed, method) == IF method = "OPTIONS" THEN "preflight" ELSE "handle"
VerbGate(allowed, method) ==
    IF method = "OPTIONS" THEN "preflight"
    ELSE IF method # allowed THEN "reject"
    ELSE "handle"

\* !TOKEN || !CHAT_ID
ConfigMissingTokenOnly(e) == ~e.token
ConfigMissing(e) == ~e.token \/ ~e.chat

\* typeof body === 'string' and JSON.parse throws
BodyParseNeverFails(body) == FALSE
BodyParseFails(body) == body.kind = "string" /\ ~body.parses

\* !userData after the parse: no body, or a body that is JSON null
NoData(body) == body.kind = "undefined" \/ body.isNull

\* 'already exists'
StrAlreadyExists ==
    <<97, 108, 114, 101, 97, 100, 121, 32, 101, 120, 105, 115, 116, 115>>
\* message.includes('already exists'), part_001 lines 104 and 140
IncludesAlreadyExists(message) ==
    \E i \in 1..(Len(message) - Len(StrAlreadyExists) + 1) :
        SubSeq(message, i, i + Len(StrAlreadyExists) - 1) = StrAlreadyExists

\* "xalready existsx"
DescEmbedded ==
    <<120, 97, 108, 114, 101, 97, 100, 121, 32, 101, 120, 105, 115, 116, 115, 120>>
\* descriptions of an error answer of createForumTopic; <<>>: it has none;
\* "Forbidden"; "Bad Request: topic already exists"
Descriptions ==
    {<<>>,
     <<70, 111, 114, 98, 105, 100, 100, 101, 110>>,
     <<66, 97, 100, 32, 82, 101, 113, 117, 101, 115, 116, 58, 32, 116, 111, 112, 105, 99, 32, 97, 108, 114, 101, 97, 100, 121, 32, 101, 120, 105, 115, 116, 115>>}

\* messages of the errors the create can throw
\* part_001 line 152
StrKunneIkke ==
    <<75, 117, 110, 110, 101, 32, 105, 107, 107, 101, 32, 111, 112, 112, 114, 101, 116, 116,
    101, 32, 116, 111, 112, 105, 99, 58, 32>>
\* part_001 line 150
StrTopicsIkke ==
    <<84, 111, 112, 105, 99, 115, 32, 105, 107, 107, 101, 32, 115, 116, 248, 116, 116, 101,
    116, 32, 45, 32, 115, 106, 101, 107, 107, 32, 97, 116, 32, 103, 114, 117, 112, 112, 101,
    110, 32, 101, 114, 32, 101, 110, 32, 115, 117, 112, 101, 114, 103, 114, 117, 112, 112,
    101, 32, 109, 101, 100, 32, 116, 111, 112, 105, 99, 115, 32, 97, 107, 116, 105, 118,
    101, 114, 116>>
\* result.result is undefined at line 156
StrCannotRead ==
    <<67, 97, 110, 110, 111, 116, 32, 114, 101, 97, 100, 32, 112, 114, 111, 112, 101, 114,
    116, 105, 101, 115, 32, 111, 102, 32, 117, 110, 100, 101, 102, 105, 110, 101, 100, 32,
    40, 114, 101, 97, 100, 105, 110, 103, 32, 39, 109, 101, 115, 115, 97, 103, 101, 95, 116,
    104, 114, 101, 97, 100, 95, 105, 100, 39, 41>>
\* messages of a fetch that rejects: "fetch failed", "socket already exists"
FetchErrors ==
    {<<102, 101, 116, 99, 104, 32, 102, 97, 105, 108, 101, 100>>,
     <<115, 111, 99, 107, 101, 116, 32, 97, 108, 114, 101, 97, 100, 121, 32, 101, 120, 105, 115, 116, 115>>}
\* messages of response.json() of a body that is no JSON: "Unexpected token < in
\* JSON at position 0", and one where the runtime quotes the body:
\* "Unexpected token 'a', "already exists" is not valid JSON"
JsonErrors ==
    {<<85, 110, 101, 120, 112, 101, 99, 116, 101, 100, 32, 116, 111, 107, 101, 110, 32, 60, 32, 105, 110, 32, 74, 83, 79, 78, 32, 97, 116, 32, 112, 111, 115, 105, 116, 105, 111, 110, 32, 48>>,
     <<85, 110, 101, 120, 112, 101, 99, 116, 101, 100, 32, 116, 111, 107, 101, 110, 32, 39, 97, 39, 44, 32, 34, 97, 108, 114, 101, 97, 100, 121, 32, 101, 120, 105, 115, 116, 115, 34, 32, 105, 115, 32, 110, 111, 116, 32, 118, 97, 108, 105, 100, 32, 74, 83, 79, 78>>}

\* response.statusText of an error answer
StatusText == "Bad Request"

\* page size of getForumTopics
Limit == 100

\* ipToTopicMap.has / get / set
CacheHas(map, ip) == ip \in DOMAIN map
CacheSet(map, ip, v) == (ip :> v) @@ map

\* JSON.stringify drops a property whose value is undefined; NaN and the
\* infinities are written null
Serialized(v) == IF v.k \in {"nan", "infinity"} THEN Null ELSE v

\* part_001 lines 172-175: message_thread_id of the payload (Undefined: none)
PayloadThreadB(topicId) == IF topicId = Null THEN Undefined ELSE Serialized(topicId)

\* part_000 lines 270-272: parseInt(topicId) of a truthy value; an object's
\* string form is no number
PayloadThreadA(topicId) ==
    IF Truthy(topicId)
    THEN Serialized(IF topicId.k = "object" THEN NaN ELSE ParseIntOfNumber(topicId))
    ELSE Undefined

(***************************************************************************)
(* State                                                                   *)
(***************************************************************************)
VARIABLES
    env,            \* process.env: token and chat set or not, IP_TOPIC_MAP
    ipToTopicMap,   \* part_001 line 11: the Map of the Variant B process
    rq,             \* per request slot: the request, its position, its locals
    earlier,        \* one earlier Variant B request that sent: its address and thread
    topic,          \* getTopicIdForIP applied to bounded inputs
    fmt             \* the formatters applied to bounded inputs

vars == <<env, ipToTopicMap, rq, earlier, topic, fmt>>

(***************************************************************************)
(* Bounds and inputs                                                       *)
(***************************************************************************)
\* thread ids the remote API hands out: 0..MaxThreadId
MaxThreadId == 2

Slots == {"r1", "r2"}

HeaderChoices ==
    { [xff |-> <<32, 50, 32, 44, 49>>, realIp |-> <<>>, remote |-> <<>>], \* " 2 ,1"
      [xff |-> <<>>, realIp |-> <<50>>, remote |-> <<57>>],             \* x-real-ip "2"
      [xff |-> <<>>, realIp |-> <<>>, remote |-> <<>>] }                \* none

Body(kind, parses, isNull, data) ==
    [kind |-> kind, parses |-> parses, isNull |-> isNull, data |-> data]
PayloadKnown == [f \in {"action", "bank"} |-> IF f = "action" THEN "bank_selected" ELSE "UBS"]
PayloadUnknown == [f \in {"action"} |-> "foo"]
BodyChoices ==
    { Body("undefined", FALSE, FALSE, NoObject),   \* no body
      Body("string", FALSE, FALSE, NoObject),      \* a string that is not JSON
      Body("string", TRUE, TRUE, NoObject),        \* the string "null"
      Body("string", TRUE, FALSE, PayloadKnown),   \* a JSON string of an object
      Body("object", TRUE, FALSE, PayloadUnknown) }\* an object parsed by the platform

\* IP_TOPIC_MAP: unset, "2:7", and "2:9007199254740993" (2^53 + 1, which no double is)
EnvChoices ==
    [token : BOOLEAN, chat : BOOLEAN,
     IP_TOPIC_MAP : {<<>>, <<50, 58, 55>>,
                     <<50, 58, 57, 48, 48, 55, 49, 57, 57, 50, 53, 52, 55, 52, 48, 57, 57, 51>>}]

\* message_thread_id values in the remote's answers; Undefined: the field is
\* missing, Null: it is a JSON null
RemoteIds == {Num(i) : i \in 0..MaxThreadId} \cup {Undefined, Null}

\* What the body of an answer of getForumTopics can come to
ListOutcome(kind, len, found, id) == [kind |-> kind, len |-> len, found |-> found, id |-> id]
\* listReply of a request: the answer to its last getForumTopics call, kept until
\* the request's next turn
NoListOutcome == ListOutcome("none", 0, FALSE, Null)
ListOutcomes ==
    {ListOutcome(k, 0, FALSE, Null) : k \in {"notok", "badjson", "noresult", "badtopics"}}
    \cup {ListOutcome("page", len, FALSE, Null) : len \in {0, Limit - 1, Limit}}
    \cup {ListOutcome("page", len, TRUE, id) : len \in {Limit - 1, Limit}, id \in RemoteIds}

\* What one createForumTopic call can come to.  errorData: the JSON of an error answer
\* For "throw" (the fetch rejects) and the two "badjson" kinds (response.json()
\* rejects) desc is the message of the error thrown
ErrorData(desc, code) == [desc |-> desc, code |-> code]
NoErrorData == ErrorData(<<>>, 0)
ErrorDatas ==
    {ErrorData(d, c) : d \in Descriptions, c \in {400, 403}} \cup {ErrorData(DescEmbedded, 409)}
CreateOutcome(kind, errorData, id) == [kind |-> kind, errorData |-> errorData, id |-> id]
CreateOutcomes ==
    {CreateOutcome(k, ErrorData(m, 0), Null) : k \in {"notok-badjson", "ok-badjson"}, m \in JsonErrors}
    \cup {CreateOutcome("ok-noresult", NoErrorData, Null)}
    \cup {CreateOutcome("notok", e, Null) : e \in ErrorDatas}
    \cup {CreateOutcome("ok", NoErrorData, id) : id \in RemoteIds}

\* A fetch settles before the body of its answer is read: it rejects, or it
\* resolves with the status and the headers, and the handler awaits the body
NoFetch == [settled |-> FALSE, httpOk |-> FALSE, ctypeJson |-> FALSE]
Fetched(httpOk, ctypeJson) == [settled |-> TRUE, httpOk |-> httpOk, ctypeJson |-> ctypeJson]
\* the status of the answer an outcome is the body of
ListHttpOk(o) == o.kind # "notok"

\* What one sendMessage call can come to: the fetch rejects, or there is an answer
\* with an HTTP status (httpOk), a content type, and a body that is empty, not
\* JSON, or a JSON object with the remote's success flag and maybe a description
SendOutcome(kind, httpOk, ctypeJson, body, flag, desc, code) ==
    [kind |-> kind, httpOk |-> httpOk, ctypeJson |-> ctypeJson, body |-> body,
     flag |-> flag, desc |-> desc, code |-> code]
NoSendOutcome == SendOutcome("none", FALSE, FALSE, "empty", FALSE, "", 0)
\* desc "": the answer has no description; code 0: it has no error_code
SendOutcomes ==
    {SendOutcome("answer", h, FALSE, "text", FALSE, "", 0) : h \in BOOLEAN}
    \cup {SendOutcome("answer", h, TRUE, b, FALSE, "", 0) : h \in BOOLEAN, b \in {"empty", "text"}}
    \cup {SendOutcome("answer", TRUE, TRUE, "object", TRUE, "", 0)}
    \cup {SendOutcome("answer", h, TRUE, "object", FALSE, "Forbidden", 403) : h \in BOOLEAN}
    \cup {SendOutcome("answer", h, TRUE, "object", FALSE, "", c) : h \in BOOLEAN, c \in {0, 403}}

Idle ==
    [pc |-> "idle", endpoint |-> "ip", method |-> "GET",
     headers |-> [xff |-> <<>>, realIp |-> <<>>, remote |-> <<>>],
     body |-> Body("undefined", FALSE, FALSE, NoObject),
     ip |-> <<>>, isNew |-> FALSE, findCtx |-> "none",
     errorData |-> NoErrorData, createError |-> <<>>, topicId |-> Undefined,
     fetched |-> NoFetch,
     finds |-> 0, creates |-> 0, sends |-> 0,
     sendThread |-> Undefined, message |-> <<>>, sendReply |-> NoSendOutcome,
     listReply |-> NoListOutcome,
     cors |-> CorsHeaders(""), resp |-> [status |-> 0, json |-> FALSE, body |-> NoBody]]

(***************************************************************************)
(* GET /ip (api/ip.js)                                                     *)
(***************************************************************************)
Done(q, resp) == [q EXCEPT !.pc = "done", !.resp = resp]

HandleIp(q) ==
    LET gate == VerbGate("GET", q.method)
    IN IF gate = "preflight" THEN Done(q, EmptyResponse(200))
       ELSE IF gate = "reject"
       THEN Done(q, JsonResponse(405, [f \in {"error"} |-> Text(<<"Method not allowed">>)]))
       ELSE Done([q EXCEPT !.ip = ClientIpA(q.headers)],
                 JsonResponse(200, [f \in {"ip"} |-> AddrField(ClientIpA(q.headers))]))

(***************************************************************************)
(* Variant A (part_000)                                                    *)
(***************************************************************************)
SendFailedA(details) ==
    JsonResponse(500, [f \in {"error", "details"} |->
        IF f = "error" THEN Text(<<"Failed to send message to Telegram">>) ELSE Text(details)])

InvalidJsonResponse ==
    JsonResponse(400, [f \in {"error", "message"} |->
        IF f = "error" THEN Text(<<"Invalid JSON in request body">>)
        ELSE Text(<<"Unexpected token">>)])

NoDataResponseNoError == JsonResponse(400, [f \in {"detail"} |-> Text(<<"No data provided">>)])
NoDataResponse == JsonResponse(400, [f \in {"error"} |-> Text(<<"No data provided">>)])

\* lines 4-275: everything up to the fetch of sendMessage
HandleA(q, e) ==
    LET gate == VerbGate("POST", q.method)
        clientIp == ClientIpA(q.headers)
        topicId == getTopicIdForIP(clientIp, e.IP_TOPIC_MAP)
    IN IF gate = "preflight" THEN Done(q, EmptyResponse(200))
       ELSE IF gate = "reject"
       THEN Done(q, JsonResponse(405, [f \in {"error"} |-> Text(<<"Method not allowed">>)]))
       ELSE IF ConfigMissing(e)
       THEN Done(q, JsonResponse(500, [f \in {"error", "message"} |->
                IF f = "error" THEN Text(<<"Telegram credentials not configured">>)
                ELSE Text(<<"TELEGRAM_BOT_TOKEN and TELEGRAM_CHAT_ID must be set in environment variables">>)]))
       ELSE IF BodyParseFails(q.body) THEN Done([q EXCEPT !.ip = clientIp, !.topicId = topicId], InvalidJsonResponse)
       ELSE IF NoData(q.body) THEN Done([q EXCEPT !.ip = clientIp, !.topicId = topicId], NoDataResponse)
       ELSE [q EXCEPT !.pc = "send", !.ip = clientIp, !.topicId = topicId,
                      !.message = FormatMessageA(q.body.data, clientIp),
                      !.sendThread = PayloadThreadA(topicId), !.sends = @ + 1]

\* lines 280-289: the fetch of sendMessage settles; the content type is read from
\* the headers and the body is awaited (lines 291 and 298)
OnSendFetchedA(q, rejects, httpOk, ctypeJson) ==
    IF rejects
    THEN Done([q EXCEPT !.sendReply = SendOutcome("throw", FALSE, FALSE, "empty", FALSE, "", 0)],
              SendFailedA(<<"fetch failed">>))
    ELSE [q EXCEPT !.fetched = Fetched(httpOk, ctypeJson)]

\* lines 291-334: the body of the answer of sendMessage has arrived
OnSendReplyA(q, o) ==
    LET p == [q EXCEPT !.sendReply = o, !.fetched = NoFetch]
    IN IF ~o.ctypeJson
       THEN Done(p, SendFailedA(<<"Telegram API returned non-JSON response: ", "<text>">>))
       ELSE IF o.body = "text" THEN Done(p, SendFailedA(<<"Unexpected token">>))
       ELSE IF o.body = "empty" THEN Done(p, SendFailedA(<<"Empty response from Telegram API">>))
       ELSE IF ~o.httpOk \/ ~o.flag
       THEN Done(p, SendFailedA(IF o.desc # "" THEN <<o.desc>>
                                ELSE IF o.code # 0 THEN <<"<error_code>">>
                                ELSE <<"Unknown error">>))
       ELSE Done(p, JsonResponse(200, [f \in {"success", "message", "telegram_message_id"} |->
                IF f = "success" THEN Text(<<"true">>)
                ELSE IF f = "message" THEN Text(<<"Data sent to Telegram successfully">>)
                ELSE Text(<<"<message_id>">>)]))

(***************************************************************************)
(* Variant B (part_001)                                                    *)
(***************************************************************************)
\* what a step leaves: the request's record and the Map
Step(q, map) == [q |-> q, map |-> map]

ServerError(msg) ==
    JsonResponse(500, [f \in {"message"} |-> Text(<<"Serverfeil: ">> \o msg)])

\* lines 348-355 up to the fetch of sendMessage (sendToTelegram lines 163-183)
BeginSendB(q, topicId) ==
    [q EXCEPT !.pc = "send", !.topicId = topicId, !.findCtx = "none",
              !.errorData = NoErrorData, !.createError = <<>>,
              !.message = formatTelegramMessage(q.body.data, q.ip, q.isNew),
              !.sendThread = PayloadThreadB(topicId), !.sends = @ + 1]

\* findExistingTopicForIP is entered: the first getForumTopics call.  The offset of
\* a call (0, then limit more with every call) goes into the URL of that call and
\* nowhere else: no branch of the loop reads it, and the record does not keep it
BeginFind(q, ctx) ==
    [q EXCEPT !.pc = "find", !.findCtx = ctx, !.finds = @ + 1]

\* the catch of getOrCreateTopicForIP, lines 100-115, for an error with this message
OnCreateErrorUncaught(q, map, msg) ==
    Step(Done([q EXCEPT !.createError = msg], ServerError(<<"<error.message>">>)), map)
OnCreateError(q, map, msg) ==
    LET p == [q EXCEPT !.createError = msg]
    IN IF msg # <<>> /\ IncludesAlreadyExists(msg) THEN Step(BeginFind(p, "refind"), map)
       ELSE Step(BeginSendB(p, Null), map)

\* the throw at the end of createTopicForIP's error branch, lines 148-152
CreateThrows(q, map, errorData) ==
    IF errorData.code = 400
    THEN OnCreateError(q, map, StrTopicsIkke)
    ELSE OnCreateError(q, map,
             \* errorData.description || response.statusText, "Bad Request"
             StrKunneIkke \o (IF errorData.desc # <<>> THEN errorData.desc
                              ELSE <<66, 97, 100, 32, 82, 101, 113, 117, 101, 115, 116>>))

\* findExistingTopicForIP returned v to the place that called it
FindReturns(q, map, v) ==
    IF q.findCtx = "first"                           \* lines 89-97
    THEN IF Truthy(v) THEN Step(BeginSendB(q, v), CacheSet(map, q.ip, v))
         ELSE Step([q EXCEPT !.pc = "create", !.findCtx = "none", !.creates = @ + 1], map)
    ELSE IF q.findCtx = "inCreate"                   \* lines 142-152, then 98-99
    THEN IF Truthy(v) THEN Step(BeginSendB(q, v), CacheSet(map, q.ip, v))
         ELSE CreateThrows(q, map, q.errorData)
    ELSE IF Truthy(v) THEN Step(BeginSendB(q, v), CacheSet(map, q.ip, v))  \* lines 106-114
         ELSE Step(BeginSendB(q, Null), map)

\* lines 293-346: everything up to the first remote call
HandleB(q, e, map) ==
    LET gate == VerbGate("POST", q.method)
        ip_adresse == ClientIpB(q.headers)
        p == [q EXCEPT !.ip = ip_adresse, !.isNew = ~CacheHas(map, ip_adresse)]
    IN IF gate = "preflight" THEN Done(q, EmptyResponse(200))
       ELSE IF gate = "reject"
       THEN Done(q, JsonResponse(405, [f \in {"message"} |-> Text(<<"Kun POST er tillatt">>)]))
       ELSE IF ConfigMissing(e)
       THEN Done(q, ServerError(<<"TELEGRAM_BOT_TOKEN eller TELEGRAM_CHAT_ID er ikke satt i miljovariabler">>))
       ELSE IF BodyParseFails(q.body) THEN Done(q, InvalidJsonResponse)
       ELSE IF NoData(q.body) THEN Done(q, NoDataResponse)
       ELSE IF CacheHas(map, ip_adresse) THEN BeginSendB(p, map[ip_adresse])
       ELSE BeginFind(p, "first")

\* lines 28-38: the fetch of getForumTopics settles.  A rejection is caught at line
\* 72; otherwise the body is awaited (line 47, line 41 for an error status)
OnListFetched(q, map, rejects, httpOk) ==
    IF rejects
    THEN FindReturns([q EXCEPT !.listReply = ListOutcome("throw", 0, FALSE, Null)], map, Null)
    ELSE Step([q EXCEPT !.fetched = Fetched(httpOk, FALSE), !.listReply = NoListOutcome], map)

\* lines 40-75: the body of the answer of getForumTopics has arrived
OnListReply(q, map, o) ==
    LET p == [q EXCEPT !.listReply = o, !.fetched = NoFetch]
    IN IF o.kind = "page" /\ o.found THEN FindReturns(p, map, o.id)
       ELSE IF o.kind = "page" /\ o.len >= Limit
       THEN Step(p, map)                            \* lines 62-66: the next call
       ELSE FindReturns(p, map, Null)

\* lines 124-157: the createForumTopic call is answered
OnCreateReply(q, map, o) ==
    LET p == [q EXCEPT !.listReply = NoListOutcome, !.fetched = NoFetch]
    IN IF o.kind = "ok" THEN Step(BeginSendB(p, o.id), CacheSet(map, p.ip, o.id))
       ELSE IF o.kind = "notok"
       THEN IF o.errorData.desc # <<>> /\ IncludesAlreadyExists(o.errorData.desc)
            THEN Step(BeginFind([p EXCEPT !.errorData = o.errorData], "inCreate"), map)
            ELSE CreateThrows(p, map, o.errorData)
       ELSE IF o.kind = "ok-noresult" THEN OnCreateError(p, map, StrCannotRead)
       ELSE OnCreateError(p, map, o.errorData.desc)

\* lines 124-134: the fetch of createForumTopic settles.  A rejection goes to the
\* catch at line 100; otherwise the body is awaited (line 155, line 137 for an error
\* status)
OnCreateFetched(q, map, rejects, message, httpOk) ==
    IF rejects
    THEN OnCreateReply(q, map, CreateOutcome("throw", ErrorData(message, 0), Null))
    ELSE Step([q EXCEPT !.fetched = Fetched(httpOk, FALSE), !.listReply = NoListOutcome], map)

\* lines 177-183: the fetch of sendMessage settles; a rejection goes to the catch
\* at line 363, otherwise the body is awaited (line 190, line 186 for an error status)
OnSendFetchedB(q, rejects, httpOk) ==
    IF rejects
    THEN Done([q EXCEPT !.sendReply = SendOutcome("throw", FALSE, FALSE, "empty", FALSE, "", 0),
                        !.listReply = NoListOutcome],
              ServerError(<<"fetch failed">>))
    ELSE [q EXCEPT !.fetched = Fetched(httpOk, FALSE), !.listReply = NoListOutcome]

\* lines 185-190 and 357-366: the body of the answer of sendMessage has arrived
OnSendReplyB(q, o) ==
    LET p == [q EXCEPT !.sendReply = o, !.listReply = NoListOutcome, !.fetched = NoFetch]
    IN IF o.body # "object" THEN Done(p, ServerError(<<"Unexpected token">>))
       ELSE IF ~o.httpOk
       THEN Done(p, ServerError(<<"Telegram API error: ",
                                  IF o.desc # "" THEN o.desc ELSE StatusText>>))
       ELSE Done(p, JsonResponse(200, [f \in {"message", "ip_adresse"} |->
                IF f = "message" THEN Text(<<"Data sendt til Telegram!">>)
                ELSE AddrField(q.ip)]))

(***************************************************************************)
(* The handlers as a state machine.  A request is in a slot from its       *)
(* arrival until its handler has returned; it takes the first free slot.   *)
(* Requests are handled one after the other: a request starts when no      *)
(* other is in a slot.  `earlier` remembers one Variant B request that was *)
(* answered after sending, any one of them.                                *)
(***************************************************************************)
EmptyMap == [a \in {} |-> Null]

Free(s) == rq[s].pc = "idle"
NoneInFlight == \A s \in Slots : Free(s)
FirstFree == CHOOSE s \in Slots : Free(s) /\ \A t \in Slots : Free(t) => (s = "r1" \/ t # "r1")

Arrive(q) ==
    [Idle EXCEPT !.endpoint = q.endpoint, !.method = q.method, !.headers = q.headers,
                 !.body = q.body,
                 !.cors = CorsHeaders(IF q.endpoint = "ip" THEN "GET, OPTIONS" ELSE "POST, OPTIONS")]

NoEarlier ==
    [set |-> FALSE, ip |-> <<>>, sendThread |-> Undefined, topicId |-> Undefined]
Summary(q) ==
    [set |-> TRUE, ip |-> q.ip, sendThread |-> q.sendThread, topicId |-> q.topicId]

\* a request arrives and runs to its answer or to its first remote call
Start(r) ==
    /\ NoneInFlight
    /\ r = FirstFree
    /\ \E endpoint \in {"ip", "A", "B"}, method \in {"OPTIONS", "POST", "GET", "PUT"},
          headers \in HeaderChoices, body \in BodyChoices :
         LET q == Arrive([endpoint |-> endpoint, method |-> method,
                          headers |-> headers, body |-> body])
         IN rq' = [rq EXCEPT ![r] =
                      IF endpoint = "ip" THEN HandleIp(q)
                      ELSE IF endpoint = "A" THEN HandleA(q, env)
                      ELSE HandleB(q, env, ipToTopicMap)]
    /\ UNCHANGED <<env, ipToTopicMap, earlier, topic, fmt>>

\* the handler of an answered request has returned: its slot is free again
Return(r) ==
    /\ rq[r].pc = "done"
    /\ rq' = [rq EXCEPT ![r] = Idle]
    /\ \/ earlier' = earlier
       \/ /\ rq[r].endpoint = "B"
          /\ rq[r].sends > 0
          /\ earlier' = Summary(rq[r])
    /\ UNCHANGED <<env, ipToTopicMap, topic, fmt>>

\* the fetch of a getForumTopics call of the request settles
ListFetched(r) ==
    /\ rq[r].pc = "find"
    /\ ~rq[r].fetched.settled
    /\ \E rejects \in BOOLEAN, httpOk \in BOOLEAN :
         LET st == OnListFetched(rq[r], ipToTopicMap, rejects, httpOk)
         IN /\ rq' = [rq EXCEPT ![r] = st.q]
            /\ ipToTopicMap' = st.map
    /\ UNCHANGED <<env, earlier, topic, fmt>>

\* the body of the answer of a getForumTopics call of the request arrives
ListReply(r) ==
    /\ rq[r].pc = "find"
    /\ rq[r].fetched.settled
    /\ \E o \in ListOutcomes :
         /\ ListHttpOk(o) = rq[r].fetched.httpOk
         /\ LET st == OnListReply(rq[r], ipToTopicMap, o)
            IN /\ rq' = [rq EXCEPT ![r] = st.q]
               /\ ipToTopicMap' = st.map
    /\ UNCHANGED <<env, earlier, topic, fmt>>

\* the fetch of the createForumTopic call of the request settles
CreateFetched(r) ==
    /\ rq[r].pc = "create"
    /\ ~rq[r].fetched.settled
    /\ \E rejects \in BOOLEAN, message \in FetchErrors, httpOk \in BOOLEAN :
         LET st == OnCreateFetched(rq[r], ipToTopicMap, rejects, message, httpOk)
         IN /\ rq' = [rq EXCEPT ![r] = st.q]
            /\ ipToTopicMap' = st.map
    /\ UNCHANGED <<env, earlier, topic, fmt>>

\* the body of the answer of the createForumTopic call of the request arrives
CreateReply(r) ==
    /\ rq[r].pc = "create"
    /\ rq[r].fetched.settled
    /\ \E o \in CreateOutcomes :
         /\ (o.kind \in {"ok", "ok-badjson", "ok-noresult"}) = rq[r].fetched.httpOk
         /\ LET st == OnCreateReply(rq[r], ipToTopicMap, o)
            IN /\ rq' = [rq EXCEPT ![r] = st.q]
               /\ ipToTopicMap' = st.map
    /\ UNCHANGED <<env, earlier, topic, fmt>>

\* the fetch of the sendMessage call of a Variant A request settles
SendFetchedA(r) ==
    /\ rq[r].pc = "send"
    /\ rq[r].endpoint = "A"
    /\ ~rq[r].fetched.settled
    /\ \E rejects \in BOOLEAN, httpOk \in BOOLEAN, ctypeJson \in BOOLEAN :
         rq' = [rq EXCEPT ![r] = OnSendFetchedA(rq[r], rejects, httpOk, ctypeJson)]
    /\ UNCHANGED <<env, ipToTopicMap, earlier, topic, fmt>>

\* the body of the answer of the sendMessage call of a Variant A request arrives
SendReplyA(r) ==
    /\ rq[r].pc = "send"
    /\ rq[r].endpoint = "A"
    /\ rq[r].fetched.settled
    /\ \E o \in SendOutcomes :
         /\ o.httpOk = rq[r].fetched.httpOk
         /\ o.ctypeJson = rq[r].fetched.ctypeJson
         /\ rq' = [rq EXCEPT ![r] = OnSendReplyA(rq[r], o)]
    /\ UNCHANGED <<env, ipToTopicMap, earlier, topic, fmt>>

\* the fetch of the sendMessage call of a Variant B request settles
SendFetchedB(r) ==
    /\ rq[r].pc = "send"
    /\ rq[r].endpoint = "B"
    /\ ~rq[r].fetched.settled
    /\ \E rejects \in BOOLEAN, httpOk \in BOOLEAN :
         rq' = [rq EXCEPT ![r] = OnSendFetchedB(rq[r], rejects, httpOk)]
    /\ UNCHANGED <<env, ipToTopicMap, earlier, topic, fmt>>

\* the body of the answer of the sendMessage call of a Variant B request arrives
SendReplyB(r) ==
    /\ rq[r].pc = "send"
    /\ rq[r].endpoint = "B"
    /\ rq[r].fetched.settled
    /\ \E o \in SendOutcomes :
         /\ o.httpOk = rq[r].fetched.httpOk
         /\ rq' = [rq EXCEPT ![r] = OnSendReplyB(rq[r], o)]
    /\ UNCHANGED <<env, ipToTopicMap, earlier, topic, fmt>>

TopicIdle == [phase |-> "off", ip |-> <<>>, table |-> <<>>, IP_TOPIC_MAP |-> <<>>, result |-> Undefined]
FmtIdle == [phase |-> "off", variant |-> "A", data |-> NoObject, ip |-> <<>>, isNew |-> FALSE, message |-> <<>>]

Init ==
    /\ env \in EnvChoices
    /\ ipToTopicMap = EmptyMap
    /\ rq = [r \in Slots |-> Idle]
    /\ earlier = NoEarlier
    /\ topic = TopicIdle
    /\ fmt = FmtIdle

Next ==
    \E r \in Slots :
        \/ Start(r)
        \/ Return(r)
        \/ ListFetched(r)
        \/ ListReply(r)
        \/ CreateFetched(r)
        \/ CreateReply(r)
        \/ SendFetchedA(r)
        \/ SendReplyA(r)
        \/ SendFetchedB(r)
        \/ SendReplyB(r)

Spec == Init /\ [][Next]_vars

(***************************************************************************)
(* Variant B alone, with every fetch answered or rejected in the end: the  *)
(* handler awaits each fetch and each body, and nothing else can resume    *)
(* it, so the reply steps are weakly fair.                                 *)
(***************************************************************************)
\* Variant B POST requests with a body the handler accepts
BodiesAccepted == {b \in BodyChoices : ~BodyParseFails(b) /\ ~NoData(b)}

StartB(r) ==
    /\ NoneInFlight
    /\ r = FirstFree
    /\ \E headers \in HeaderChoices, body \in BodiesAccepted :
         rq' = [rq EXCEPT ![r] =
                   HandleB(Arrive([endpoint |-> "B", method |-> "POST",
                                   headers |-> headers, body |-> body]),
                           env, ipToTopicMap)]
    /\ UNCHANGED <<env, ipToTopicMap, earlier, topic, fmt>>

InitPaging ==
    /\ Init
    /\ env.token /\ env.chat

NextPaging ==
    \E r \in Slots :
        \/ StartB(r)
        \/ Return(r)
        \/ ListFetched(r)
        \/ ListReply(r)
        \/ CreateFetched(r)
        \/ CreateReply(r)
        \/ SendFetchedB(r)
        \/ SendReplyB(r)

SpecPaging ==
    /\ InitPaging
    /\ [][NextPaging]_vars
    /\ \A r \in Slots :
          /\ WF_vars(ListFetched(r)) /\ WF_vars(ListReply(r))
          /\ WF_vars(CreateFetched(r)) /\ WF_vars(CreateReply(r))
          /\ WF_vars(SendFetchedB(r)) /\ WF_vars(SendReplyB(r))

(***************************************************************************)
(* Variant B with requests in flight together.  The handler is an async    *)
(* function: while one request awaits a fetch, the process may start or    *)
(* resume another, and all of them share ipToTopicMap.                      *)
(***************************************************************************)
\* the requests come from one address and carry an object the platform parsed
StartInterleaved(r) ==
    /\ \E s \in Slots : Free(s)
    /\ r = FirstFree
    /\ \E headers \in {h \in HeaderChoices : h.xff # <<>>},
          body \in {b \in BodiesAccepted : b.kind = "object"} :
         rq' = [rq EXCEPT ![r] =
                   HandleB(Arrive([endpoint |-> "B", method |-> "POST",
                                   headers |-> headers, body |-> body]),
                           env, ipToTopicMap)]
    /\ UNCHANGED <<env, ipToTopicMap, earlier, topic, fmt>>

\* the fetch of the sendMessage call of the request settles; when it rejects the
\* handler answers the request and returns: its slot is free again
SendFetchedReturns(r) ==
    /\ rq[r].pc = "send"
    /\ ~rq[r].fetched.settled
    /\ \E rejects \in BOOLEAN, httpOk \in BOOLEAN :
         LET q == OnSendFetchedB(rq[r], rejects, httpOk)
         IN rq' = [rq EXCEPT ![r] = IF q.pc = "done" THEN Idle ELSE q]
    /\ UNCHANGED <<env, ipToTopicMap, earlier, topic, fmt>>

\* the body of the answer of the sendMessage call arrives, the handler answers the
\* request and returns: its slot is free again
SendReplyReturns(r) ==
    /\ rq[r].pc = "send"
    /\ rq[r].fetched.settled
    /\ \E o \in SendOutcomes :
         /\ o.httpOk = rq[r].fetched.httpOk
         /\ OnSendReplyB(rq[r], o).pc = "done"
    /\ rq' = [rq EXCEPT ![r] = Idle]
    /\ UNCHANGED <<env, ipToTopicMap, earlier, topic, fmt>>

NextInterleaved ==
    \E r \in Slots :
        \/ StartInterleaved(r)
        \/ ListFetched(r)
        \/ ListReply(r)
        \/ CreateFetched(r)
        \/ CreateReply(r)
        \/ SendFetchedReturns(r)
        \/ SendReplyReturns(r)

SpecInterleaved == InitPaging /\ [][NextInterleaved]_vars

(***************************************************************************)
(* getTopicIdForIP on bounded inputs.  The override table is chosen as a   *)
(* sequence of entries (address, id, padded with blanks or not) and        *)
(* written out as the IP_TOPIC_MAP string the code parses.                 *)
(***************************************************************************)
\* longest address drawn from the alphabet
MaxIpLen == 2
\* most entries of an override table
MaxMappings == 2

RECURSIVE StringsUpTo(_, _)
StringsUpTo(alphabet, n) ==
    IF n = 0 THEN {<<>>}
    ELSE LET shorter == StringsUpTo(alphabet, n - 1)
         IN shorter \cup {Append(t, c) : t \in shorter, c \in alphabet}

\* "f45685b6": its rolling hash is -2^31
StrMinHash == <<102, 52, 53, 54, 56, 53, 98, 54>>
StrLoopback6 == <<58, 58, 49>>
IpAlphabet == {49, 50, 58}
IpInputs ==
    (StringsUpTo(IpAlphabet, MaxIpLen) \ {<<>>})
    \cup {StrMinHash, StrLoopback6, StrUnknown, StrConstructor, StrProto}

TableKeys == {<<49>>, StrLoopback6}
TableIds == {0, 7}
TableEntries == [key : TableKeys, id : TableIds, pad : BOOLEAN]

RECURSIVE TablesUpTo(_)
TablesUpTo(n) ==
    IF n = 0 THEN {<<>>}
    ELSE LET shorter == TablesUpTo(n - 1)
         IN shorter \cup {Append(t, e) : t \in shorter, e \in TableEntries}

EntryString(e) ==
    IF e.pad THEN <<160>> \o e.key \o <<32, 58, 65279>> \o ToDecimal(e.id) \o <<8232>>
    ELSE e.key \o <<58>> \o ToDecimal(e.id)

RECURSIVE TableString(_)
TableString(table) ==
    IF table = <<>> THEN <<>>
    ELSE IF Len(table) = 1 THEN EntryString(table[1])
    ELSE EntryString(Head(table)) \o <<44>> \o TableString(Tail(table))

InitTopic ==
    /\ env = [token |-> TRUE, chat |-> TRUE, IP_TOPIC_MAP |-> <<>>]
    /\ ipToTopicMap = EmptyMap
    /\ rq = [r \in Slots |-> Idle]
    /\ earlier = NoEarlier
    /\ fmt = FmtIdle
    /\ \E ip \in IpInputs, table \in TablesUpTo(MaxMappings) :
         topic = [phase |-> "in", ip |-> ip, table |-> table,
                  IP_TOPIC_MAP |-> TableString(table), result |-> Undefined]

\* the handler calls getTopicIdForIP(clientIp)
ApplyTopic ==
    /\ topic.phase = "in"
    /\ topic' = [topic EXCEPT !.phase = "out",
                              !.result = getTopicIdForIP(topic.ip, topic.IP_TOPIC_MAP)]
    /\ UNCHANGED <<env, ipToTopicMap, rq, earlier, fmt>>

NextTopic == ApplyTopic

SpecTopic == InitTopic /\ [][NextTopic]_vars

(***************************************************************************)
(* The formatters on bounded inputs                                        *)
(***************************************************************************)
FmtActions == RecognizedActions \cup {"foo", ""}
FmtFieldValues == {"", "v"}
FmtOptional == {"bank", "remaining_attempts", "timestamp"}
FmtPayloads ==
    UNION { [fields -> FmtFieldValues] : fields \in SUBSET FmtOptional }
WithAction(d, action) ==
    [f \in DOMAIN d \cup {"action"} |-> IF f = "action" THEN action ELSE d[f]]
FmtInputs == FmtPayloads \cup {WithAction(d, a) : d \in FmtPayloads, a \in FmtActions}

InitFormat ==
    /\ env = [token |-> TRUE, chat |-> TRUE, IP_TOPIC_MAP |-> <<>>]
    /\ ipToTopicMap = EmptyMap
    /\ rq = [r \in Slots |-> Idle]
    /\ earlier = NoEarlier
    /\ topic = TopicIdle
    /\ \E variant \in {"A", "B"}, data \in FmtInputs, ip \in {<<>>, <<50>>}, isNew \in BOOLEAN :
         /\ variant = "A" => (~isNew /\ ip # <<>>)
         /\ fmt = [phase |-> "in", variant |-> variant, data |-> data, ip |-> ip,
                   isNew |-> isNew, message |-> <<>>]

\* the handler formats the message of a parsed body
ApplyFormat ==
    /\ fmt.phase = "in"
    /\ fmt' = [fmt EXCEPT !.phase = "out",
                          !.message = IF fmt.variant = "A"
                                      THEN FormatMessageA(fmt.data, fmt.ip)
                                      ELSE formatTelegramMessage(fmt.data, fmt.ip, fmt.isNew)]
    /\ UNCHANGED <<env, ipToTopicMap, rq, earlier, topic>>

NextFormat == ApplyFormat

SpecFormat == InitFormat /\ [][NextFormat]_vars

(***************************************************************************)
(* Properties                                                              *)
(***************************************************************************)
Relay(q) == q.endpoint \in {"A", "B"}
ConfigUnset == ~env.token \/ ~env.chat
NoOutbound(q) == q.sends = 0 /\ q.finds = 0 /\ q.creates = 0
HasField(q, f) == q.resp.json /\ f \in DOMAIN q.resp.body
\* some field of the response body carries the text t
Carries(q, t) ==
    \E f \in DOMAIN q.resp.body : \E i \in DOMAIN q.resp.body[f].text : q.resp.body[f].text[i] = t
\* a Variant B POST that got past the configuration and body checks
Resolving(q) ==
    /\ q.pc # "idle" /\ q.endpoint = "B" /\ q.method = "POST"
    /\ ~ConfigUnset /\ q.body.kind # "undefined" /\ q.body.parses /\ ~q.body.isNull
\* the sendMessage call was answered and sendToTelegram threw
SendItselfFailed(q) ==
    /\ q.sendReply.kind # "none"
    /\ (q.sendReply.kind = "throw" \/ ~q.sendReply.httpOk \/ q.sendReply.body # "object")

\* C1 as stated: of two Variant B requests from one address handled one after the
\* other, the later sends with the thread id of the earlier and makes no create
\* call, whatever the remote answered to the earlier.
C1_SameThreadNoCreate ==
    \A r \in Slots :
        (earlier.set /\ rq[r].endpoint = "B" /\ rq[r].sends > 0 /\ rq[r].ip = earlier.ip)
        => (rq[r].sendThread = earlier.sendThread /\ rq[r].creates = 0)

\* C2 as stated: for an address that is a key of the override table, with one id
\* configured for it, getTopicIdForIP returns exactly that id.
C2_OverrideReturned ==
    topic.phase = "out" =>
        \A i \in DOMAIN topic.table :
            (/\ topic.table[i].key = topic.ip
             /\ \A j \in DOMAIN topic.table :
                    topic.table[j].key = topic.ip => topic.table[j].id = topic.table[i].id)
            => topic.result = Num(topic.table[i].id)

\* C3 as stated: for an address that is no key of the override table, the topic id
\* is an integer in 100000..999999.
C3_HashedIdInRange ==
    (topic.phase = "out" /\ \A i \in DOMAIN topic.table : topic.table[i].key # topic.ip)
    => (topic.result.k = "num" /\ topic.result.n \in 100000..999999)

\* C4: while the bot token or the chat id is unset, a POST to a relay handler is
\* answered 500 with the configuration message without any outbound call, and
\* ipToTopicMap stays as it was (empty, since no request can have filled it).
ConfigTexts ==
    {"Telegram credentials not configured",
     "TELEGRAM_BOT_TOKEN eller TELEGRAM_CHAT_ID er ikke satt i miljovariabler"}
C4_ConfigMissing500 ==
    ConfigUnset =>
        /\ ipToTopicMap = EmptyMap
        /\ \A r \in Slots :
               (rq[r].pc # "idle" /\ Relay(rq[r]) /\ rq[r].method = "POST")
               => /\ rq[r].pc = "done"
                  /\ rq[r].resp.status = 500
                  /\ \E t \in ConfigTexts : Carries(rq[r], t)
                  /\ NoOutbound(rq[r])

C4_Witness ==
    \E r \in Slots :
        /\ ~env.chat /\ env.token
        /\ rq[r].pc = "done" /\ rq[r].endpoint = "B" /\ rq[r].method = "POST"
        /\ rq[r].resp.status = 500

UnparseableBody(q) ==
    q.pc # "idle" /\ Relay(q) /\ q.method = "POST" /\ q.body.kind = "string" /\ ~q.body.parses

\* C5 as stated: a POST whose body is a string that is not JSON is answered 400
\* with an error field, whatever the configuration.
C5_BadJson400Always ==
    \A r \in Slots :
        UnparseableBody(rq[r])
        => (rq[r].pc = "done" /\ rq[r].resp.status = 400 /\ HasField(rq[r], "error"))

\* C5 amended: with the bot token and the chat id set, a POST whose body is a string
\* that is not JSON is answered 400 with an error field and no outbound call; with
\* either unset it is answered 500.
C5_BadJson400WhenConfigured ==
    \A r \in Slots :
        UnparseableBody(rq[r])
        => /\ rq[r].pc = "done"
           /\ NoOutbound(rq[r])
           /\ ~ConfigUnset => (rq[r].resp.status = 400 /\ HasField(rq[r], "error"))
           /\ ConfigUnset => rq[r].resp.status = 500

C5_Witness ==
    \E r \in Slots :
        /\ UnparseableBody(rq[r]) /\ ~ConfigUnset
        /\ rq[r].pc = "done" /\ rq[r].resp.status = 400 /\ rq[r].endpoint = "A"

\* C6 as stated: when sendMessage is answered with a JSON object whose success flag
\* is false, the handler answers 500 carrying the remote's description, never 200.
C6_LogicalFailure500 ==
    \A r \in Slots :
        (/\ rq[r].pc = "done" /\ Relay(rq[r])
         /\ rq[r].sendReply.kind = "answer" /\ rq[r].sendReply.body = "object"
         /\ ~rq[r].sendReply.flag)
        => /\ rq[r].resp.status = 500
           /\ rq[r].sendReply.desc # "" => Carries(rq[r], rq[r].sendReply.desc)

FullPageNoMatch(o) == o.kind = "page" /\ ~o.found /\ o.len >= Limit

Preflight(q) == q.method = "OPTIONS"
WrongVerb(q) ==
    /\ q.method # "OPTIONS"
    /\ IF q.endpoint = "ip" THEN q.method # "GET" ELSE q.method # "POST"

\* C8: OPTIONS is answered 200 with the cross-origin headers and no body, a verb
\* the endpoint does not take is answered 405; in both cases within the step the
\* request arrives in, with no outbound call and ipToTopicMap unchanged.
C8_VerbGating ==
    [][\A r \in Slots :
         (rq[r].pc = "idle" /\ rq'[r].pc # "idle")
         => /\ Preflight(rq'[r])
                 => /\ rq'[r].pc = "done"
                    /\ rq'[r].resp = EmptyResponse(200)
                    /\ rq'[r].cors.origin = "*"
                    /\ rq'[r].cors.headers = "Content-Type"
                    /\ rq'[r].cors.methods =
                          (IF rq'[r].endpoint = "ip" THEN "GET, OPTIONS" ELSE "POST, OPTIONS")
                    /\ NoOutbound(rq'[r])
                    /\ ipToTopicMap' = ipToTopicMap
            /\ WrongVerb(rq'[r])
                 => /\ rq'[r].pc = "done"
                    /\ rq'[r].resp.status = 405
                    /\ NoOutbound(rq'[r])
                    /\ ipToTopicMap' = ipToTopicMap]_vars

C8_Witness ==
    \E r \in Slots :
        /\ ipToTopicMap # EmptyMap
        /\ rq[r].pc = "done" /\ rq[r].endpoint = "B" /\ rq[r].method = "PUT"
        /\ rq[r].resp.status = 405

MessageOrError(q) == HasField(q, "message") \/ HasField(q, "error")

\* C9 as stated: every response has a JSON body with a message or an error field.
C9_AlwaysMessageOrError ==
    \A r \in Slots : rq[r].pc = "done" => MessageOrError(rq[r])

\* C9 amended: every response has a JSON body with a message or an error field,
\* except the answer to OPTIONS, which has no body, and the 200 answer of /ip,
\* whose body has the ip field alone.
C9_MessageOrErrorButPreflightAndIp ==
    \A r \in Slots :
        rq[r].pc = "done"
        => IF rq[r].method = "OPTIONS" THEN ~rq[r].resp.json
           ELSE IF rq[r].endpoint = "ip" /\ rq[r].resp.status = 200
           THEN rq[r].resp.json /\ DOMAIN rq[r].resp.body = {"ip"}
           ELSE MessageOrError(rq[r])

C9_Witness ==
    \E r \in Slots :
        /\ rq[r].pc = "done" /\ rq[r].endpoint = "B" /\ rq[r].method = "POST"
        /\ rq[r].body.isNull /\ rq[r].resp.status = 400 /\ HasField(rq[r], "error")

Contains(message, part) == \E i \in DOMAIN message : message[i] = part

\* C10 as stated: for a payload whose action is none of the ten recognized ones,
\* the message of either formatter contains the action string and the serialized
\* payload.
C10_UnknownActionShowsPayload ==
    (/\ fmt.phase = "out"
     /\ Has(fmt.data, "action") /\ fmt.data["action"] # ""
     /\ fmt.data["action"] \notin RecognizedActions)
    => (Contains(fmt.message, Val(fmt.data["action"])) /\ Contains(fmt.message, Json(fmt.data)))

\* C11 as stated: one topic resolution runs the find once before the create and
\* at most once more after it, the latter only when the create was answered with
\* an error saying the thread already exists; so at most two finds and at most
\* one create for a request.
C11_FindAtMostTwice ==
    \A r \in Slots :
        rq[r].endpoint = "B"
        => /\ rq[r].finds <= 2
           /\ rq[r].creates <= 1
           /\ rq[r].creates = 1 => rq[r].finds >= 1
           /\ rq[r].finds >= 2 => rq[r].creates = 1
           /\ (rq[r].finds >= 2 /\ rq[r].pc = "find")
                 => \/ IncludesAlreadyExists(rq[r].errorData.desc)
                    \/ IncludesAlreadyExists(rq[r].createError)

\* finds one resolution can run
FindNumbers == 1..3

\* C12 as stated: whatever the remote listing endpoint answers, a find comes to
\* its end: a request that is in its n-th find leaves that find.
C12_FindTerminates ==
    \A r \in Slots : \A n \in FindNumbers :
        (rq[r].pc = "find" /\ rq[r].finds = n) ~> ~(rq[r].pc = "find" /\ rq[r].finds = n)

\* C13 as stated: with requests from one address interleaved at their awaits, at
\* most one create call is made for the address, and an entry of ipToTopicMap is
\* never replaced by a different thread id.
C13_OneCreateNoOverwrite ==
    /\ [](\A r \in Slots : \A s \in Slots :
            (r # s /\ rq[r].endpoint = "B" /\ rq[s].endpoint = "B" /\ rq[r].ip = rq[s].ip)
            => rq[r].creates + rq[s].creates <= 1)
    /\ [][\A a \in DOMAIN ipToTopicMap :
            a \in DOMAIN ipToTopicMap' /\ ipToTopicMap'[a] = ipToTopicMap[a]]_vars

====
